---- MODULE Spec2Model ----
(***************************************************************************)
(* A model of agent-eval's stateful core:                                  *)
(*   - TestWatcher   (src/src/watch.ts)  : debounce, cycle guard, reload   *)
(*   - AgentRunner   (src/src/runner.ts) : race of agent call and deadline *)
(*   - the CLI loop  (src/src/cli.ts)    : executeTestFiles / main         *)
(* The three components have their own variables and their own             *)
(* specifications (SpecWatcher, SpecRunner, SpecCli and their variants).   *)
(* Time is in milliseconds; Tick actions let it pass in steps of Delays.   *)
(***************************************************************************)
EXTENDS Integers, Sequences, FiniteSets, TLC

VARIABLES
  \* ---- the file system, as the watcher sees it
  disk,             \* file -> "ok" | "broken" | "absent"
  \* ---- TestWatcher
  startCalls,       \* number of start() calls made so far
  globbing,         \* number of start() calls awaiting findTestFiles()
  fileWatcherList,  \* this.fileWatcherList: sequence of watch handles
  open,             \* the watch handles the runtime holds open
  debounceTimerId,  \* this.debounceTimerId: 0 is null
  timers,           \* the debounce timers pending in the runtime
  isRunning,        \* this.isRunning
  inflight,         \* the executeTests() activations that have not finished
  lastCycle,        \* the executeTests() activation that finished last, kept
                    \* until the next one begins
  stopped,          \* history: stop() has been called
  sinceNotify,      \* history: ms since the last change notification
  notifyState,      \* history: what became of the last notification
  firedIdle,        \* history: the last timer fired while isRunning was false
  cyclesSinceNotify, \* history: cycles begun since the last notification
  burstLen,         \* history: notifications of the burst, each arriving
                    \* less than DebounceMs after the one before
  registry,         \* the Registry: the test cases registered now
  attached          \* history: the files start() attached a watch to

wvars == <<disk, startCalls, globbing, fileWatcherList, open, debounceTimerId,
           timers, isRunning, inflight, lastCycle, stopped, sinceNotify,
           notifyState, firedIdle, cyclesSinceNotify, burstLen, registry,
           attached>>

VARIABLES
  \* ---- AgentRunner
  result,           \* this.result: <<>> is null, <<r>> holds r
  trace,            \* this.trace: <<>> is null, <<t>> holds t
  rpc,              \* "idle", or "awaiting": run() awaits the agent or the race
  call,             \* the arguments of the latest run() call and its agent
  callNo,           \* number of run() calls made so far
  elapsed,          \* Date.now() - startTime of the latest call
  agents,           \* the agent calls that have not settled
  deadlines,        \* the deadline timers pending in the runtime
  outcome,          \* how the latest run() call settled
  resultCall,       \* history: the call that wrote this.result
  traceCall         \* history: the call that wrote this.trace

rvars == <<result, trace, rpc, call, callNo, elapsed, agents, deadlines,
           outcome, resultCall, traceCall>>

VARIABLES
  \* ---- the CLI outside watch mode
  cliDisk,          \* file -> "pass" | "fail" | "broken" | "absent"
  bail,             \* options.bail
  cpc,              \* "main", "load", "run", "exited"
  cliFilePathList,  \* filePathList of main
  cliIdx,           \* position of the for loop of executeTestFiles
  allPassed,        \* allPassed of executeTestFiles
  exitCode,         \* the argument of process.exit, Undefined before it
  cliLog,           \* history: the files the loop has processed
  cliEnd            \* history: what ended the loop

cvars == <<cliDisk, bail, cpc, cliFilePathList, cliIdx, allPassed, exitCode,
           cliLog, cliEnd>>

vars == <<wvars, rvars, cvars>>

(***************************************************************************)
(* Bounds and program constants                                            *)
(***************************************************************************)
DebounceMs == 100

\* an absent optional number (timeoutMs?, durationMs?), and no exit code yet
Undefined == -1

MaxCalls == 2

MaxElapsed == 120

MaxBurst == 3

\* start() calls on one watcher in the restart specification
MaxStarts == 2

Delays == {50, 100}

FileOrder == <<"a.test.ts", "b.test.ts">>

Files == {FileOrder[i] : i \in 1..Len(FileOrder)}

\* what a file is on disk: "ok" declares two cases, "ok1" is the file with its
\* second case removed, "broken" declares one case and then throws, "absent"
\* does not match the pattern
Contents == {"ok", "ok1", "broken", "absent"}

\* the cases the top level of file f registers when it is evaluated
CasesOf(f, content) ==
  CASE content = "ok" -> {<<f, 1>>, <<f, 2>>}
    [] content \in {"ok1", "broken"} -> {<<f, 1>>}
    [] OTHER -> {}

\* does require() of the file return
Loads(content) == content \in {"ok", "ok1"}

Min(a, b) == IF a < b THEN a ELSE b

Max(a, b) == IF a < b THEN b ELSE a

RemoveAt(s, i) == [k \in 1..(Len(s) - 1) |-> IF k < i THEN s[k] ELSE s[k + 1]]

RECURSIVE SelectFiles(_, _)
SelectFiles(order, d) ==
  IF order = <<>> THEN <<>>
  ELSE IF d[Head(order)] = "absent" THEN SelectFiles(Tail(order), d)
       ELSE <<Head(order)>> \o SelectFiles(Tail(order), d)

\* findTestFiles(): the files that match the pattern now, in glob's order
findTestFiles(d) == SelectFiles(FileOrder, d)

(***************************************************************************)
(* TestWatcher                                                             *)
(***************************************************************************)
NoCycle == [end |-> "none", files |-> <<>>, log |-> <<>>]

\* a TestWatcher after its constructor
WatcherNew ==
  /\ startCalls = 0
  /\ globbing = 0
  /\ fileWatcherList = <<>>
  /\ open = {}
  /\ debounceTimerId = 0
  /\ timers = {}
  /\ isRunning = FALSE
  /\ inflight = <<>>
  /\ lastCycle = NoCycle
  /\ stopped = FALSE
  /\ sinceNotify = DebounceMs
  /\ notifyState = "none"
  /\ firedIdle = FALSE
  /\ cyclesSinceNotify = 0
  /\ burstLen = 0
  /\ registry = {}
  /\ attached = {}

\* setTimeout's return value: a timer id no pending timer and no slot holds
FreshTimerId ==
  CHOOSE n \in 1..(Cardinality(timers) + 2) :
    /\ n # debounceTimerId
    /\ \A t \in timers : t.id # n

\* clearTimeout(id): a no-op when the timer has fired already
clearTimeout(ts, id) == {t \in ts : t.id # id}

\* scheduleTestRun without the clearTimeout of the pending timer
scheduleTestRunNoClear(ts, changedFilePath) ==
  ts \cup {[id |-> FreshTimerId, file |-> changedFilePath, left |-> DebounceMs,
            armedRunning |-> isRunning, afterStop |-> stopped]}

\* scheduleTestRun: the pending timers after the call
scheduleTestRun(ts, changedFilePath) ==
  (IF debounceTimerId # 0 THEN clearTimeout(ts, debounceTimerId) ELSE ts)
    \cup {[id |-> FreshTimerId, file |-> changedFilePath, left |-> DebounceMs,
           armedRunning |-> isRunning, afterStop |-> stopped]}

\* the synchronous head of executeTests(): the activation awaiting the glob
NewCycle(by, t) ==
  [pc |-> "glob", files |-> <<>>, idx |-> 0, log |-> <<>>, end |-> "none",
   by |-> by, armedRunning |-> t.armedRunning, afterStop |-> t.afterStop,
   gap |-> sinceNotify, begunStopped |-> stopped, reg |-> {}]

NoTimer == [armedRunning |-> FALSE, afterStop |-> FALSE]

RECURSIVE RunLoop(_, _)

\* a load failure that leaves the loop instead of continuing it
OnLoadFailureAbort(c, d) == [c EXCEPT !.pc = "finally", !.end = "ok"]

\* catch of require(): log, continue with the next file
OnLoadFailure(c, d) == RunLoop([c EXCEPT !.idx = @ + 1], d)

\* a clearTests() that leaves the Registry as it is
clearTestsKeeps(reg) == reg

\* clearTests(): the Registry after the call
clearTests(reg) == {}

\* require(resolve(filePath)) after the cache eviction: the Registry after the
\* top level of the file ran, up to its end or to the error it throws
Require(reg, f, content) == reg \cup CasesOf(f, content)

\* the for loop of executeTests() from file c.idx up to its next await; c.reg
\* is the Registry
RunLoop(c, d) ==
  IF c.idx > Len(c.files)
  THEN [c EXCEPT !.pc = "finally", !.end = "ok"]
  ELSE LET f == c.files[c.idx]
           loaded == Loads(d[f])
           entry == [file |-> f, cleared |-> TRUE, loaded |-> loaded,
                     ran |-> loaded, content |-> d[f]]
           c1 == [c EXCEPT !.log = Append(@, entry),
                           !.reg = Require(clearTests(@), f, d[f])]
       IN IF loaded
          THEN [c1 EXCEPT !.pc = "run"]
          ELSE OnLoadFailure(c1, d)

\* an executeTests() whose finally block is skipped when an error was caught
SettleNoFinally(i, c) ==
  /\ registry' = c.reg
  /\ IF c.pc = "finally"
     THEN /\ inflight' = RemoveAt(inflight, i)
          /\ isRunning' = IF c.end = "ok" THEN FALSE ELSE isRunning
          /\ lastCycle' = [end |-> c.end, files |-> c.files, log |-> c.log]
     ELSE /\ inflight' = [inflight EXCEPT ![i] = [c EXCEPT !.reg = {}]]
          /\ UNCHANGED <<isRunning, lastCycle>>

\* the activation i moves to c: it stays in flight, or runs its finally block
Settle(i, c) ==
  /\ registry' = c.reg
  /\ IF c.pc = "finally"
     THEN /\ inflight' = RemoveAt(inflight, i)
          /\ isRunning' = FALSE
          /\ lastCycle' = [end |-> c.end, files |-> c.files, log |-> c.log]
     ELSE /\ inflight' = [inflight EXCEPT ![i] = [c EXCEPT !.reg = {}]]
          /\ UNCHANGED <<isRunning, lastCycle>>

\* start() up to its await of findTestFiles()
StartBody ==
  /\ startCalls' = startCalls + 1
  /\ globbing' = globbing + 1
  /\ UNCHANGED <<disk, fileWatcherList, open, debounceTimerId, timers,
                 isRunning, inflight, lastCycle, stopped, sinceNotify,
                 notifyState, firedIdle, cyclesSinceNotify, burstLen>>
  /\ UNCHANGED <<registry, attached>>
  /\ UNCHANGED <<rvars, cvars>>

\* start() is called, for at most the n-th time
StartUpTo(n) ==
  /\ startCalls < n
  /\ StartBody

Start == StartUpTo(1)

\* start() after the glob resolved: watchFile for each file, then the head of
\* executeTests()
StartGlobDone ==
  /\ globbing > 0
  /\ globbing' = globbing - 1
  /\ LET filePathList == findTestFiles(disk)
         handles == [k \in 1..Len(filePathList) |->
                       [start |-> startCalls - globbing + 1,
                        file |-> filePathList[k]]]
     IN /\ fileWatcherList' = fileWatcherList \o handles
        /\ open' = open \cup {handles[k] : k \in 1..Len(handles)}
        /\ attached' = attached \cup {filePathList[k] :
                                        k \in 1..Len(filePathList)}
  /\ UNCHANGED registry
  /\ isRunning' = TRUE
  /\ inflight' = Append(inflight, NewCycle("start", NoTimer))
  /\ lastCycle' = NoCycle
  /\ UNCHANGED <<disk, startCalls, debounceTimerId, timers, stopped,
                 sinceNotify, notifyState, firedIdle, cyclesSinceNotify, burstLen>>
  /\ UNCHANGED <<rvars, cvars>>

\* a file changes on disk; a watched file's callback calls scheduleTestRun
Change(f, content) ==
  /\ disk' = [disk EXCEPT ![f] = content]
  /\ IF \E h \in open : h.file = f
     THEN /\ timers' = scheduleTestRun(timers, f)
          /\ debounceTimerId' = FreshTimerId
          /\ sinceNotify' = 0
          /\ notifyState' = "pending"
          /\ cyclesSinceNotify' = 0
          /\ burstLen' = IF notifyState = "pending" /\ sinceNotify < DebounceMs
                         THEN Min(MaxBurst, burstLen + 1)
                         ELSE 1
     ELSE UNCHANGED <<timers, debounceTimerId, sinceNotify, notifyState,
                      cyclesSinceNotify, burstLen>>
  /\ UNCHANGED firedIdle
  /\ UNCHANGED <<startCalls, globbing, fileWatcherList, open, isRunning,
                 inflight, lastCycle, stopped>>
  /\ UNCHANGED <<registry, attached>>
  /\ UNCHANGED <<rvars, cvars>>

\* handleFileChange with the isRunning guard left out
handleFileChangeNoGuard(t) == TRUE

\* handleFileChange: does the call start a cycle
handleFileChange(t) == ~isRunning

\* a debounce timer fires: handleFileChange(t.file)
TimerFire(t) ==
  /\ t \in timers
  /\ t.left = 0
  /\ timers' = timers \ {t}
  /\ firedIdle' = ~isRunning
  /\ IF handleFileChange(t)
     THEN /\ isRunning' = TRUE
          /\ inflight' = Append(inflight, NewCycle("timer", t))
          /\ lastCycle' = NoCycle
          /\ notifyState' = "started"
          /\ cyclesSinceNotify' = Min(2, cyclesSinceNotify + 1)
     ELSE /\ notifyState' = "dropped"
          /\ UNCHANGED <<isRunning, inflight, lastCycle, cyclesSinceNotify>>
  /\ UNCHANGED burstLen
  /\ UNCHANGED <<disk, startCalls, globbing, fileWatcherList, open,
                 debounceTimerId, stopped, sinceNotify>>
  /\ UNCHANGED <<registry, attached>>
  /\ UNCHANGED <<rvars, cvars>>

\* executeTests(): findTestFiles() resolved, the loop runs to its first await
CycleGlobDone(i) ==
  /\ i \in 1..Len(inflight)
  /\ inflight[i].pc = "glob"
  /\ \E c0 \in {[inflight[i] EXCEPT !.files = findTestFiles(disk),
                                    !.idx = 1,
                                    !.reg = registry]} :
       \E c \in {RunLoop(c0, disk)} : Settle(i, c)
  /\ UNCHANGED <<disk, startCalls, globbing, fileWatcherList, open,
                 debounceTimerId, timers, stopped, sinceNotify, notifyState,
                 firedIdle, cyclesSinceNotify, burstLen>>
  /\ UNCHANGED attached
  /\ UNCHANGED <<rvars, cvars>>

\* executeTests(): findTestFiles() rejected, caught by the outer catch
CycleGlobFail(i) ==
  /\ i \in 1..Len(inflight)
  /\ inflight[i].pc = "glob"
  /\ Settle(i, [inflight[i] EXCEPT !.pc = "finally", !.end = "globError",
                                   !.reg = registry])
  /\ UNCHANGED <<disk, startCalls, globbing, fileWatcherList, open,
                 debounceTimerId, timers, stopped, sinceNotify, notifyState,
                 firedIdle, cyclesSinceNotify, burstLen>>
  /\ UNCHANGED attached
  /\ UNCHANGED <<rvars, cvars>>

\* executeTests(): runTests() resolved, the loop goes on with the next file
RunTestsDone(i) ==
  /\ i \in 1..Len(inflight)
  /\ inflight[i].pc = "run"
  /\ \E c0 \in {[inflight[i] EXCEPT !.idx = @ + 1, !.reg = registry]} :
       \E c \in {RunLoop(c0, disk)} : Settle(i, c)
  /\ UNCHANGED <<disk, startCalls, globbing, fileWatcherList, open,
                 debounceTimerId, timers, stopped, sinceNotify, notifyState,
                 firedIdle, cyclesSinceNotify, burstLen>>
  /\ UNCHANGED attached
  /\ UNCHANGED <<rvars, cvars>>

\* executeTests(): runTests() rejected, caught by the outer catch
RunTestsFail(i) ==
  /\ i \in 1..Len(inflight)
  /\ inflight[i].pc = "run"
  /\ Settle(i, [inflight[i] EXCEPT !.pc = "finally", !.end = "runError",
                                   !.reg = registry])
  /\ UNCHANGED <<disk, startCalls, globbing, fileWatcherList, open,
                 debounceTimerId, timers, stopped, sinceNotify, notifyState,
                 firedIdle, cyclesSinceNotify, burstLen>>
  /\ UNCHANGED attached
  /\ UNCHANGED <<rvars, cvars>>

\* a stop() that also resets the running flag
StopResetsRunning ==
  /\ startCalls > 0
  /\ open' = open \ {fileWatcherList[k] : k \in 1..Len(fileWatcherList)}
  /\ fileWatcherList' = <<>>
  /\ stopped' = TRUE
  /\ isRunning' = FALSE
  /\ UNCHANGED <<disk, startCalls, globbing, debounceTimerId, timers,
                 inflight, lastCycle, sinceNotify, notifyState,
                 firedIdle, cyclesSinceNotify, burstLen>>
  /\ UNCHANGED <<registry, attached>>
  /\ UNCHANGED <<rvars, cvars>>

\* stop()
Stop ==
  /\ startCalls > 0
  /\ open' = open \ {fileWatcherList[k] : k \in 1..Len(fileWatcherList)}
  /\ fileWatcherList' = <<>>
  /\ stopped' = TRUE
  /\ UNCHANGED <<disk, startCalls, globbing, debounceTimerId, timers,
                 isRunning, inflight, lastCycle, sinceNotify, notifyState,
                 firedIdle, cyclesSinceNotify, burstLen>>
  /\ UNCHANGED <<registry, attached>>
  /\ UNCHANGED <<rvars, cvars>>

\* d ms pass
WatcherTick(d) ==
  /\ \/ sinceNotify < DebounceMs
     \/ \E t \in timers : t.left > 0
  /\ timers' = {[t EXCEPT !.left = Max(0, @ - d)] : t \in timers}
  /\ sinceNotify' = Min(DebounceMs, sinceNotify + d)
  /\ UNCHANGED <<disk, startCalls, globbing, fileWatcherList, open,
                 debounceTimerId, isRunning, inflight, lastCycle, stopped,
                 notifyState, firedIdle, cyclesSinceNotify, burstLen>>
  /\ UNCHANGED <<registry, attached>>
  /\ UNCHANGED <<rvars, cvars>>

\* the contents of the files of a fixed file list
PresentContents == Contents \ {"absent"}

\* the contents of files whose cases do not change
PlainContents == Contents \ {"ok1"}

WatcherNext ==
  \/ Start
  \/ StartGlobDone
  \/ \E f \in Files, content \in PlainContents : Change(f, content)
  \/ \E t \in timers : TimerFire(t)
  \/ \E i \in 1..Len(inflight) : CycleGlobDone(i)
  \/ \E i \in 1..Len(inflight) : CycleGlobFail(i)
  \/ \E i \in 1..Len(inflight) : RunTestsDone(i)
  \/ \E i \in 1..Len(inflight) : RunTestsFail(i)
  \/ Stop
  \/ \E d \in Delays : WatcherTick(d)

\* the watcher over a fixed list of files whose cases change
RegistryNext ==
  \/ Start
  \/ StartGlobDone
  \/ \E f \in Files, content \in PresentContents : Change(f, content)
  \/ \E t \in timers : TimerFire(t)
  \/ \E i \in 1..Len(inflight) : CycleGlobDone(i)
  \/ \E i \in 1..Len(inflight) : CycleGlobFail(i)
  \/ \E i \in 1..Len(inflight) : RunTestsDone(i)
  \/ \E i \in 1..Len(inflight) : RunTestsFail(i)
  \/ Stop
  \/ \E d \in Delays : WatcherTick(d)

(***************************************************************************)
(* AgentRunner                                                             *)
(***************************************************************************)
Prompts == {"p1", "p2"}

\* the values of timeoutMs a caller passes
Timeouts == {Undefined, 0, 50}

\* what an agent function does with a prompt
AgentResults ==
  {[output |-> "ok", toolCalls |-> <<>>, durationMs |-> ms] :
     ms \in {Undefined, 0, 7}}

NoError == [name |-> "none", ms |-> Undefined]

AgentError == [name |-> "AgentError", ms |-> Undefined]

Behaviours ==
  {[kind |-> "resolve", result |-> <<r>>, error |-> NoError] :
     r \in AgentResults}
    \cup {[kind |-> k, result |-> <<>>, error |-> AgentError] :
            k \in {"reject", "throw"}}
    \cup {[kind |-> "never", result |-> <<>>, error |-> NoError]}

\* new Error(`Test timeout after ${timeoutMs}ms`)
TimeoutError(timeoutMs) == [name |-> "Test timeout", ms |-> timeoutMs]

\* the result of the trace stored by the catch block
EmptyResult == [output |-> "", toolCalls |-> <<>>, durationMs |-> Undefined]

NoCall == [prompt |-> "", timeoutMs |-> Undefined,
           agent |-> [kind |-> "none", result |-> <<>>, error |-> NoError]]

NoOutcome == [kind |-> "none", value |-> <<>>, error |-> NoError,
              measured |-> 0]

\* an AgentRunner after its constructor
RunnerNew ==
  /\ result = <<>>
  /\ trace = <<>>
  /\ rpc = "idle"
  /\ call = NoCall
  /\ callNo = 0
  /\ elapsed = 0
  /\ agents = {}
  /\ deadlines = {}
  /\ outcome = NoOutcome
  /\ resultCall = 0
  /\ traceCall = 0

\* `timeoutMs ? race : await agentPromise`: is the deadline timer created
UsesDeadline(timeoutMs) == timeoutMs # Undefined /\ timeoutMs # 0

\* `if (!this.result.durationMs) this.result.durationMs = durationMs`
FillDuration(r, durationMs) ==
  IF r.durationMs = Undefined \/ r.durationMs = 0
  THEN [r EXCEPT !.durationMs = durationMs]
  ELSE r

\* a catch block that keeps the stored result instead of the empty sentinel
CatchTraceStale(prompt, durationMs) ==
  [prompt |-> prompt,
   result |-> IF result = <<>> THEN EmptyResult ELSE result[1],
   durationMs |-> durationMs]

\* the trace the catch block stores
CatchTrace(prompt, durationMs) ==
  [prompt |-> prompt, result |-> EmptyResult, durationMs |-> durationMs]

\* the catch block of run(): store the trace, re-throw the error
Catch(error) ==
  /\ trace' = <<CatchTrace(call.prompt, elapsed)>>
  /\ traceCall' = callNo
  /\ outcome' = [kind |-> "rejected", value |-> <<>>, error |-> error,
                 measured |-> elapsed]
  /\ rpc' = "idle"
  /\ UNCHANGED <<result, resultCall>>

\* run() after the await: fill durationMs, store result and trace, return
Return(r) ==
  /\ result' = <<FillDuration(r, elapsed)>>
  /\ resultCall' = callNo
  /\ trace' = <<[prompt |-> call.prompt, result |-> FillDuration(r, elapsed),
                 durationMs |-> elapsed]>>
  /\ traceCall' = callNo
  /\ outcome' = [kind |-> "returned", value |-> <<FillDuration(r, elapsed)>>,
                 error |-> NoError, measured |-> elapsed]
  /\ rpc' = "idle"

\* run(prompt, timeoutMs) up to its await; an agent that throws at once lands
\* in the catch block
RunCall(prompt, timeoutMs, b) ==
  /\ rpc = "idle"
  /\ callNo < MaxCalls
  /\ callNo' = callNo + 1
  /\ call' = [prompt |-> prompt, timeoutMs |-> timeoutMs, agent |-> b]
  /\ elapsed' = 0
  /\ IF b.kind = "throw"
     THEN /\ trace' = <<CatchTrace(prompt, 0)>>
          /\ traceCall' = callNo + 1
          /\ outcome' = [kind |-> "rejected", value |-> <<>>,
                         error |-> b.error, measured |-> 0]
          /\ UNCHANGED <<rpc, agents, deadlines>>
     ELSE /\ agents' = agents \cup {[call |-> callNo + 1, agent |-> b]}
          /\ deadlines' =
               IF UsesDeadline(timeoutMs)
               THEN deadlines \cup {[call |-> callNo + 1, ms |-> timeoutMs,
                                     left |-> timeoutMs]}
               ELSE deadlines
          /\ rpc' = "awaiting"
          /\ outcome' = NoOutcome
          /\ UNCHANGED <<trace, traceCall>>
  /\ UNCHANGED <<result, resultCall>>
  /\ UNCHANGED <<wvars, cvars>>

\* a run() that takes any settlement for the one it awaits
AwaitedAny(n) == rpc = "awaiting"

\* is run() still awaiting the settlement of call n
Awaited(n) == rpc = "awaiting" /\ n = callNo

\* an agent call resolves; nothing observes it once its race is decided
AgentResolve(a) ==
  /\ a \in agents
  /\ a.agent.kind = "resolve"
  /\ agents' = agents \ {a}
  /\ IF Awaited(a.call)
     THEN Return(a.agent.result[1])
     ELSE UNCHANGED <<result, resultCall, trace, traceCall, outcome, rpc>>
  /\ UNCHANGED <<call, callNo, elapsed, deadlines>>
  /\ UNCHANGED <<wvars, cvars>>

\* an agent call rejects
AgentReject(a) ==
  /\ a \in agents
  /\ a.agent.kind = "reject"
  /\ agents' = agents \ {a}
  /\ IF Awaited(a.call)
     THEN Catch(a.agent.error)
     ELSE UNCHANGED <<result, resultCall, trace, traceCall, outcome, rpc>>
  /\ UNCHANGED <<call, callNo, elapsed, deadlines>>
  /\ UNCHANGED <<wvars, cvars>>

\* a deadline timer fires and rejects its promise
DeadlineFire(t) ==
  /\ t \in deadlines
  /\ t.left = 0
  /\ deadlines' = deadlines \ {t}
  /\ IF Awaited(t.call)
     THEN Catch(TimeoutError(t.ms))
     ELSE UNCHANGED <<result, resultCall, trace, traceCall, outcome, rpc>>
  /\ UNCHANGED <<call, callNo, elapsed, agents>>
  /\ UNCHANGED <<wvars, cvars>>

\* d ms pass
RunnerTick(d) ==
  /\ \/ rpc = "awaiting" /\ elapsed < MaxElapsed
     \/ \E t \in deadlines : t.left > 0
  /\ elapsed' = IF rpc = "awaiting" THEN Min(MaxElapsed, elapsed + d)
                ELSE elapsed
  /\ deadlines' = {[t EXCEPT !.left = Max(0, @ - d)] : t \in deadlines}
  /\ UNCHANGED <<result, trace, rpc, call, callNo, agents, outcome, resultCall,
                 traceCall>>
  /\ UNCHANGED <<wvars, cvars>>

RunnerNext ==
  \/ \E prompt \in Prompts, timeoutMs \in Timeouts, b \in Behaviours :
       RunCall(prompt, timeoutMs, b)
  \/ \E a \in agents : AgentResolve(a)
  \/ \E a \in agents : AgentReject(a)
  \/ \E t \in deadlines : DeadlineFire(t)
  \/ \E d \in Delays : RunnerTick(d)

(***************************************************************************)
(* The CLI outside watch mode: main and executeTestFiles                   *)
(***************************************************************************)
CliFileOrder == <<"a.test.ts", "b.test.ts", "c.test.ts">>

CliFiles == {CliFileOrder[i] : i \in 1..Len(CliFileOrder)}

CliContents == {"pass", "fail", "broken", "absent"}

RECURSIVE CliSelect(_, _)
CliSelect(order, d) ==
  IF order = <<>> THEN <<>>
  ELSE IF d[Head(order)] = "absent" THEN CliSelect(Tail(order), d)
       ELSE <<Head(order)>> \o CliSelect(Tail(order), d)

\* the glob of main
CliGlob(d) == CliSelect(CliFileOrder, d)

\* the process before main runs
CliNew ==
  /\ cpc = "main"
  /\ cliFilePathList = <<>>
  /\ cliIdx = 0
  /\ allPassed = TRUE
  /\ exitCode = Undefined
  /\ cliLog = <<>>
  /\ cliEnd = "none"

\* process.exit(code)
Exit(code, why) ==
  /\ cpc' = "exited"
  /\ exitCode' = code
  /\ cliEnd' = why

\* main: the glob resolves; no file is fatal, else executeTestFiles begins
CliMain ==
  /\ cpc = "main"
  /\ cliFilePathList' = CliGlob(cliDisk)
  /\ IF Len(CliGlob(cliDisk)) = 0
     THEN /\ Exit(1, "nofiles")
          /\ UNCHANGED cliIdx
     ELSE /\ cpc' = "load"
          /\ cliIdx' = 1
          /\ UNCHANGED <<exitCode, cliEnd>>
  /\ UNCHANGED <<cliDisk, bail, allPassed, cliLog>>
  /\ UNCHANGED <<wvars, rvars>>

\* loadTestFile: require the file; a failure is logged and thrown again
loadTestFile(content) == IF content = "broken" THEN "throw" ELSE "loaded"

\* the loop goes on with the file after cliIdx, or returns allPassed
CliAdvance(passed) ==
  IF cliIdx < Len(cliFilePathList)
  THEN /\ cliIdx' = cliIdx + 1
       /\ cpc' = "load"
       /\ UNCHANGED <<exitCode, cliEnd>>
  ELSE /\ Exit(IF passed THEN 0 ELSE 1, "end")
       /\ UNCHANGED cliIdx

\* executeTestFiles: clearTests() and loadTestFile(filePath) of one iteration;
\* an error thrown by loadTestFile reaches main().catch
CliLoad ==
  /\ cpc = "load"
  /\ LET f == cliFilePathList[cliIdx]
         how == loadTestFile(cliDisk[f])
     IN /\ cliLog' = Append(cliLog, [file |-> f, loaded |-> how = "loaded",
                                     ran |-> how = "loaded"])
        /\ IF how = "loaded"
           THEN /\ cpc' = "run"
                /\ UNCHANGED <<cliIdx, exitCode, cliEnd>>
           ELSE /\ Exit(1, "fatal")
                /\ UNCHANGED cliIdx
  /\ UNCHANGED <<cliDisk, bail, cliFilePathList, allPassed>>
  /\ UNCHANGED <<wvars, rvars>>

\* executeTestFiles: runTests() resolved with the results of the file
CliRunTestsDone ==
  /\ cpc = "run"
  /\ LET failed == cliDisk[cliFilePathList[cliIdx]] = "fail"
     IN /\ allPassed' = (allPassed /\ ~failed)
        /\ IF failed /\ bail
           THEN /\ Exit(1, "bail")
                /\ UNCHANGED cliIdx
           ELSE CliAdvance(allPassed /\ ~failed)
  /\ UNCHANGED <<cliDisk, bail, cliFilePathList, cliLog>>
  /\ UNCHANGED <<wvars, rvars>>

\* executeTestFiles: runTests() rejected; the error reaches main().catch
CliRunTestsFail ==
  /\ cpc = "run"
  /\ Exit(1, "fatal")
  /\ UNCHANGED <<cliDisk, bail, cliFilePathList, cliIdx, allPassed, cliLog>>
  /\ UNCHANGED <<wvars, rvars>>

CliNext ==
  \/ CliMain
  \/ CliLoad
  \/ CliRunTestsDone
  \/ CliRunTestsFail

(***************************************************************************)
(* Specifications                                                          *)
(***************************************************************************)
NoDisk == [f \in Files |-> "absent"]

NoCliDisk == [f \in CliFiles |-> "absent"]

WatcherInit ==
  /\ disk \in [Files -> PlainContents]
  /\ WatcherNew
  /\ RunnerNew
  /\ cliDisk = NoCliDisk /\ bail = FALSE /\ CliNew

RunnerInit ==
  /\ disk = NoDisk
  /\ WatcherNew
  /\ RunnerNew
  /\ cliDisk = NoCliDisk /\ bail = FALSE /\ CliNew

CliInit ==
  /\ disk = NoDisk
  /\ WatcherNew
  /\ RunnerNew
  /\ cliDisk \in [CliFiles -> CliContents]
  /\ bail \in BOOLEAN
  /\ CliNew

SpecWatcher == WatcherInit /\ [][WatcherNext]_vars

\* the files of a fixed list that load or fail to load
LoadContents == {"ok", "broken"}

CycleInit ==
  /\ disk \in [Files -> LoadContents]
  /\ WatcherNew
  /\ RunnerNew
  /\ cliDisk = NoCliDisk /\ bail = FALSE /\ CliNew

\* the watcher with time passing in whole debounce delays
CycleNext ==
  \/ Start
  \/ StartGlobDone
  \/ \E f \in Files, content \in LoadContents : Change(f, content)
  \/ \E t \in timers : TimerFire(t)
  \/ \E i \in 1..Len(inflight) : CycleGlobDone(i)
  \/ \E i \in 1..Len(inflight) : CycleGlobFail(i)
  \/ \E i \in 1..Len(inflight) : RunTestsDone(i)
  \/ \E i \in 1..Len(inflight) : RunTestsFail(i)
  \/ Stop
  \/ WatcherTick(DebounceMs)

\* every glob and every runTests() call of a cycle settles
FairSpecWatcher ==
  /\ CycleInit
  /\ [][CycleNext]_vars
  /\ WF_vars(\E i \in 1..Len(inflight) :
               \/ CycleGlobDone(i) \/ CycleGlobFail(i)
               \/ RunTestsDone(i) \/ RunTestsFail(i))

\* a watcher on files that all load
RestartInit ==
  /\ disk = [f \in Files |-> "ok"]
  /\ WatcherNew
  /\ RunnerNew
  /\ cliDisk = NoCliDisk /\ bail = FALSE /\ CliNew

\* a watcher on which start() is called more than once; a change saves the
\* file again as it is
RestartNext ==
  \/ StartUpTo(MaxStarts)
  \/ StartGlobDone
  \/ \E f \in Files : Change(f, disk[f])
  \/ \E t \in timers : TimerFire(t)
  \/ \E i \in 1..Len(inflight) : CycleGlobDone(i)
  \/ \E i \in 1..Len(inflight) : CycleGlobFail(i)
  \/ \E i \in 1..Len(inflight) : RunTestsDone(i)
  \/ \E i \in 1..Len(inflight) : RunTestsFail(i)
  \/ Stop
  \/ WatcherTick(DebounceMs)

SpecRestart == RestartInit /\ [][RestartNext]_vars

RegistryInit ==
  /\ disk \in [Files -> PresentContents]
  /\ WatcherNew
  /\ RunnerNew
  /\ cliDisk = NoCliDisk /\ bail = FALSE /\ CliNew

SpecRegistry == RegistryInit /\ [][RegistryNext]_vars

SpecRunner == RunnerInit /\ [][RunnerNext]_vars

\* time passes and a due timer fires: the event loop runs every due timer
FairSpecRunner ==
  /\ RunnerInit
  /\ [][RunnerNext]_vars
  /\ WF_vars(\E d \in Delays : RunnerTick(d))
  /\ WF_vars(\E t \in deadlines : DeadlineFire(t))

SpecCli == CliInit /\ [][CliNext]_vars

(***************************************************************************)
(* Claims about the TestWatcher, checked under SpecWatcher                 *)
(***************************************************************************)

\* C1: with start() called once, at most one cycle (executeTests activation)
\* is in flight in every reachable state: no cycle begins before the running
\* one has finished.
C1_AtMostOneCycle == Len(inflight) <= 1

\* C1 witness: a debounce timer fired during a running cycle and was dropped
C1_Witness ==
  /\ Len(inflight) = 1
  /\ notifyState = "dropped"
  /\ ~firedIdle

\* C2 (as claimed): no cycle is ever started because of a notification that
\* arrived while a cycle was running.
C2_NoCycleFromNotificationWhileRunning ==
  \A i \in 1..Len(inflight) :
    inflight[i].by = "timer" => ~inflight[i].armedRunning

\* C3: a burst of notifications leaves exactly one timer pending, due
\* DebounceMs after the last notification; a cycle begun by a timer begins no
\* earlier than DebounceMs after the last notification; a timer that fires
\* while the watcher is idle begins a cycle, and one notification begins at
\* most one cycle.
C3_DebounceOneCycle ==
  /\ Cardinality(timers) <= 1
  /\ (notifyState = "pending") <=> (timers # {})
  /\ \A t \in timers : t.left = Max(0, DebounceMs - sinceNotify)
  /\ \A i \in 1..Len(inflight) :
       inflight[i].by = "timer" => inflight[i].gap >= DebounceMs
  /\ cyclesSinceNotify <= 1
  /\ (notifyState = "started") => (cyclesSinceNotify = 1)
  /\ (notifyState \in {"started", "dropped"} /\ firedIdle)
       => (notifyState = "started")

\* C3 witness: a burst of MaxBurst notifications, each re-arming the timer
\* before it was due, began its one cycle
C3_Witness ==
  /\ notifyState = "started"
  /\ cyclesSinceNotify = 1
  /\ Len(inflight) = 1
  /\ inflight[1].by = "timer"
  /\ burstLen = MaxBurst
  /\ firedIdle

\* C4 (as claimed): after stop() has been called, no file change that happens
\* later triggers a cycle.
C4_NoCycleFromChangeAfterStop ==
  \A i \in 1..Len(inflight) :
    inflight[i].by = "timer" => ~inflight[i].afterStop

CycleLogOk(c) ==
  /\ Len(c.log) <= Len(c.files)
  /\ \A k \in 1..Len(c.log) :
       /\ c.log[k].file = c.files[k]
       /\ c.log[k].cleared
       /\ c.log[k].ran = c.log[k].loaded

\* C9: in a cycle a file whose load fails is skipped: runTests is invoked for
\* exactly the files that loaded, and a cycle that no glob or runTests error
\* ended has cleared and reloaded every file of its list, those after a
\* failed load included.
C9_LoadFailureSkipsFile ==
  /\ \A i \in 1..Len(inflight) :
       /\ CycleLogOk(inflight[i])
       /\ inflight[i].pc = "run" =>
            /\ Len(inflight[i].log) = inflight[i].idx
            /\ inflight[i].log[inflight[i].idx].loaded
  /\ CycleLogOk(lastCycle)
  /\ lastCycle.end = "ok" => Len(lastCycle.log) = Len(lastCycle.files)

\* C9 witness: a finished cycle whose first file failed to load and whose
\* second file was loaded and run
C9_Witness ==
  /\ lastCycle.end = "ok"
  /\ Len(lastCycle.log) = 2
  /\ ~lastCycle.log[1].loaded
  /\ ~lastCycle.log[1].ran
  /\ lastCycle.log[2].loaded
  /\ lastCycle.log[2].ran

\* C11: whenever runTests is invoked for a file in a cycle, and for as long
\* as the cycle awaits it, the Registry holds exactly the cases the load of
\* that file registered in that cycle: none of an earlier cycle, of an earlier
\* file of the cycle or of a file whose load failed.
C11_RegistryHoldsLoadedFile ==
  \A i \in 1..Len(inflight) :
    inflight[i].pc = "run" =>
      LET c == inflight[i]
      IN /\ Len(c.log) = c.idx
         /\ registry = CasesOf(c.files[c.idx], c.log[c.idx].content)

\* C11 witness: a later cycle runs the second file, reloaded with its second
\* case removed, after the first file of the cycle failed to load
C11_Witness ==
  /\ Len(inflight) = 1
  /\ inflight[1].by = "timer"
  /\ inflight[1].pc = "run"
  /\ inflight[1].idx = 2
  /\ inflight[1].log[1].content = "broken"
  /\ inflight[1].log[2].content = "ok1"
  /\ registry = {<<FileOrder[2], 1>>}

FileSet(files) == {files[k] : k \in 1..Len(files)}

\* C12 (as claimed): the file list is fixed at start(): every cycle, the
\* initial one included, processes exactly the files a watch was attached to
\* at start().
C12_CycleProcessesAttachedFiles ==
  /\ \A i \in 1..Len(inflight) :
       inflight[i].pc = "run" => FileSet(inflight[i].files) = attached
  /\ lastCycle.end \in {"ok", "runError"} =>
       FileSet(lastCycle.files) = attached

\* C14: provided every glob and every runTests call settles, every cycle
\* that starts ends, however it ends (normally, after a load failure, after
\* a glob or runTests error), and leaves the watcher idle: isRunning is false
\* whenever no cycle is in flight.
C14_CycleReturnsToIdle ==
  /\ [](Len(inflight) = 0 => ~isRunning)
  /\ (Len(inflight) > 0) ~> (Len(inflight) = 0 /\ ~isRunning)

\* C14 witness: a cycle that a runTests error ended, with the watcher idle
C14_Witness ==
  /\ lastCycle.end = "runError"
  /\ Len(inflight) = 0
  /\ ~isRunning

\* C18: a step that closes or removes a watch handle closes every handle of
\* the list, empties the list and changes nothing else of the watcher: the
\* flag, the cycles in flight and the pending timer stay as they are; and a
\* cycle that ends normally has processed every file of its list.
C18_StopOnlyReleasesHandles ==
  /\ [][(open \ open' # {} \/ Len(fileWatcherList') < Len(fileWatcherList)) =>
         /\ fileWatcherList' = <<>>
         /\ open' = open \ FileSet(fileWatcherList)
         /\ UNCHANGED <<disk, startCalls, globbing, debounceTimerId, timers,
                        isRunning, inflight, lastCycle, registry>>]_vars
  /\ [](lastCycle.end = "ok" => Len(lastCycle.log) = Len(lastCycle.files))

\* C18 witness: stop() was called while the cycle begun before it awaits
\* runTests(); every handle is closed and the cycle is still in flight
C18_Witness ==
  /\ stopped
  /\ attached # {}
  /\ open = {}
  /\ fileWatcherList = <<>>
  /\ isRunning
  /\ Len(inflight) = 1
  /\ inflight[1].pc = "run"
  /\ ~inflight[1].begunStopped

\* C19 (as claimed): for any number of start() calls the isRunning flag is
\* true exactly while a cycle is in flight.
C19_RunningIffCycleInFlight == isRunning <=> Len(inflight) > 0

\* C20 (as claimed): a debounce timer that was pending when stop() was called
\* starts no cycle after stop().
C20_NoCycleFromTimerPendingAtStop ==
  \A i \in 1..Len(inflight) :
    (inflight[i].by = "timer" /\ ~inflight[i].afterStop) =>
      ~inflight[i].begunStopped

(***************************************************************************)
(* Claims about the AgentRunner, checked under SpecRunner, and the         *)
(* liveness claim under FairSpecRunner                                     *)
(***************************************************************************)
NeverAwaited ==
  /\ rpc = "awaiting"
  /\ call.agent.kind = "never"
  /\ call.timeoutMs >= 0

TimedOut ==
  /\ rpc = "idle"
  /\ outcome.kind = "rejected"
  /\ outcome.error = TimeoutError(call.timeoutMs)
  /\ trace # <<>>
  /\ traceCall = callNo
  /\ trace[1].durationMs >= call.timeoutMs

\* C5 (as claimed): for an agent that never resolves and every timeoutMs
\* T >= 0, run() eventually rejects with the timeout error naming T, and the
\* trace of the call has endTime - startTime >= T.
C5_NeverResolvingAgentTimesOut == NeverAwaited ~> TimedOut

\* C6 (as claimed): run() returns the agent's result, with the agent's own
\* durationMs whenever the agent set one (0 included) and the measured
\* endTime - startTime only when the agent left it unset.
C6_AgentDurationKept ==
  outcome.kind = "returned" =>
    LET v == outcome.value[1]
        a == call.agent.result[1]
    IN /\ v.output = a.output
       /\ v.toolCalls = a.toolCalls
       /\ v.durationMs = IF a.durationMs # Undefined THEN a.durationMs
                         ELSE outcome.measured

\* C7: whenever run() fails, the trace slot holds a trace of that call with
\* the call's prompt and the empty sentinel result, and run() rejects with
\* the error the agent raised or the timeout error of the call's deadline.
C7_FailureStoresSentinelTrace ==
  outcome.kind = "rejected" =>
    /\ trace # <<>>
    /\ traceCall = callNo
    /\ trace[1].prompt = call.prompt
    /\ trace[1].result = EmptyResult
    /\ trace[1].durationMs = outcome.measured
    /\ \/ /\ call.agent.kind \in {"reject", "throw"}
          /\ outcome.error = call.agent.error
       \/ /\ UsesDeadline(call.timeoutMs)
          /\ outcome.error = TimeoutError(call.timeoutMs)

\* C7 witness: a call that timed out on a runner whose earlier call had
\* stored a result and a trace with another prompt
C7_Witness ==
  /\ outcome.kind = "rejected"
  /\ outcome.error = TimeoutError(50)
  /\ callNo = 2
  /\ result # <<>>
  /\ resultCall = 1
  /\ trace[1].prompt = "p2"

\* C8 (as claimed): after sequential run() calls the trace slot describes the
\* most recent call and the result slot never holds the result of an earlier
\* call than the one the trace describes.
C8_SlotsDescribeLatestCall ==
  (rpc = "idle" /\ callNo > 0) =>
    /\ traceCall = callNo
    /\ result # <<>> => resultCall = traceCall

\* C13 (as claimed): with run() calls made strictly one after another, at
\* most one agent invocation is outstanding at any time, also after a call
\* that ended by timeout.
C13_OneAgentOutstanding ==
  UsesDeadline(call.timeoutMs) => Cardinality(agents) <= 1

\* the run() call that made the agent call a has ended: its deadline won
Abandoned(a) == a.call < callNo \/ rpc = "idle"

\* C17: once the deadline has won the race, the completion of the abandoned
\* agent call changes neither the stored result nor the stored trace, and
\* changes no outcome of a run() call.
C17_LateCompletionIsNoOp ==
  [][\A a \in agents :
       (Abandoned(a) /\ a \notin agents') =>
         UNCHANGED <<result, resultCall, trace, traceCall, outcome, rpc>>]_vars

\* C17 witness: the call timed out and its agent call has completed since
C17_Witness ==
  /\ callNo = 1
  /\ rpc = "idle"
  /\ outcome.kind = "rejected"
  /\ outcome.error = TimeoutError(50)
  /\ call.agent.kind \in {"resolve", "reject"}
  /\ agents = {}
  /\ trace = <<CatchTrace(call.prompt, outcome.measured)>>

(***************************************************************************)
(* Claims about the CLI loop, checked under SpecCli                        *)
(***************************************************************************)

\* C10 (as claimed): in the multi-file loop a file that fails to load is
\* skipped without aborting the loop: the loop goes on to the files after it,
\* and the results of the files that ran decide the exit code.
C10_CliLoadFailureSkipsFile ==
  cpc = "exited" =>
    \A k \in 1..Len(cliLog) :
      (~cliLog[k].loaded /\ k = Len(cliLog)) =>
        /\ k = Len(cliFilePathList)
        /\ cliEnd = "end"
        /\ exitCode = IF allPassed THEN 0 ELSE 1

\* an error other than a load failure reached main().catch: runTests()
\* rejected
TopLevelError == cliEnd = "fatal" /\ cliLog[Len(cliLog)].loaded

\* C15 (as claimed): the process exits with code 0 if and only if at least
\* one file matched and every executed test of every processed file passed;
\* it exits with code 1 if a test failed, if no file matched, or if a
\* top-level error occurred.
C15_ExitCodeReflectsResults ==
  cpc = "exited" =>
    /\ exitCode \in {0, 1}
    /\ exitCode = 0 <=>
         /\ Len(cliFilePathList) > 0
         /\ ~TopLevelError
         /\ \A k \in 1..Len(cliLog) :
              cliLog[k].ran => cliDisk[cliLog[k].file] # "fail"

\* C16 (as claimed): with bail set no file is cleared, loaded or run after
\* the first file whose results contain a failed test, and that file's run
\* completed; with bail unset every discovered file is processed.
C16_BailStopsAtFirstFailingFile ==
  /\ bail =>
       \A k \in 1..(Len(cliLog) - 1) : cliDisk[cliLog[k].file] # "fail"
  /\ cliEnd = "bail" =>
       /\ cliLog[Len(cliLog)].ran
       /\ cliDisk[cliLog[Len(cliLog)].file] = "fail"
  /\ (~bail /\ cpc = "exited" /\ ~TopLevelError) =>
       Len(cliLog) = Len(cliFilePathList)

====
